---- MODULE Spec2Model ----
(***************************************************************************)
(* Model of the search fan-out scraper of app.py: AdvancedWebScraper       *)
(* (extract_data, is_valid_url, scrape_page, scrape_search_results) and    *)
(* the ThreadPoolExecutor it drives.                                       *)
(*                                                                         *)
(* Strings that the code inspects are sequences of tokens: a URL is the    *)
(* concatenation of its tokens ("https" "://" "a.com" "/" "page"), a page  *)
(* text is a sequence of words.  Python values carry a type tag t.        *)
(***************************************************************************)
EXTENDS Integers, Sequences, FiniteSets, TLC

VARIABLES
  patterns,     \* the patterns argument of scrape_search_results
  max_workers,  \* search_config['max_workers']
  page,         \* the loop variable of line 126
  pc,           \* where the main thread is: "loop", "submit", "collect", "done"
  urls,         \* urls[:results_per_page] of the page being processed
  futures,      \* the futures of the page being processed (indices into tasks)
  k,            \* index of the future the loop of line 156 waits for
  tasks,        \* every task submitted so far, with its state and its result
  all_results,  \* the aggregate
  table,        \* the DataFrame returned
  prov,         \* history: the task each element of all_results came from
  collected,    \* history: the tasks whose future.result() has returned
  main_slept,   \* history: the main thread slept since its last GET
  requests,     \* history: the GETs issued, each with whether a sleep preceded it
  attempted,    \* history: the pages whose listing was requested
  failed,       \* history: the pages that ended in the except clause
  arg, ret      \* argument and value of a function applied on its own

crawl_vars == <<patterns, max_workers, page, pc, urls, futures, k,
                tasks, all_results, table,
                prov, collected, main_slept, requests, attempted, failed>>

vars == <<crawl_vars, arg, ret>>

(* ------------------------------ bounds -------------------------------- *)
MaxPages == 2
MaxWorkers == 2
ResultsPerPage == 2
MaxLinks == 3
MaxTextLen == 3

(* --------------------------- python values ---------------------------- *)
PyNone == [t |-> "none"]
PyStr(s) == [t |-> "str", v |-> s]
PyList(s) == [t |-> "list", v |-> s]
PyDict(d) == [t |-> "dict", d |-> d]
NaN == [t |-> "nan"]

\* truth value of a scrape_page result: None and the empty dict are falsy
TruthyOnlyWithEmails(r) == r.t = "dict" /\ "emails" \in DOMAIN r.d
Truthy(r) == r.t = "dict" /\ DOMAIN r.d # {}

(* ------------------------------ inputs -------------------------------- *)
\* an excluded string is one token, so "in" is membership of the token
excluded_domains == {".pdf", ".doc", ".docx", ".xlsx", ".txt"}

search_config == [max_pages |-> MaxPages,
                  results_per_page |-> ResultsPerPage,
                  excluded_domains |-> excluded_domains]

\* a regex is what re.findall does with it: it raises, or it returns the
\* words of the text that belong to its language
EmailRe == [valid |-> TRUE, lang |-> {"x@y.com", "z@y.com"}]
BadRe == [valid |-> FALSE, lang |-> {}]

PatternConfigs == { [n \in {"emails"} |-> EmailRe],
                    [n \in {"emails", "bad_pattern"} |->
                        IF n = "emails" THEN EmailRe ELSE BadRe] }

\* the patterns the crawl is run with: the emails pattern of main()
default_patterns == [n \in {"emails"} |-> EmailRe]

selector_config == [title |-> <<"h1">>]

UrlA == <<"https", "://", "a.com", "/", "page">>
UrlB == <<"http", "://", "b.org", "/", "item", "?", "id=1">>
UrlPdf == <<"https", "://", "a.com", "/", "file", ".pdf">>
UrlDocsHost == <<"https", "://", "www", ".doc", "s.com", "/", "page">>
UrlRelative == <<"/", "about">>

Hrefs == {UrlA, UrlB, UrlPdf, UrlDocsHost, UrlRelative}
CrawlHrefs == {UrlA, UrlPdf}

SeqsUpTo(S, n) == UNION {[1..m -> S] : m \in 0..n}

\* what soup.select(result_selector) gives for a listing: the hrefs of the
\* matched links in document order
LinkLists == SeqsUpTo(Hrefs, MaxLinks)
CrawlLinkLists == SeqsUpTo(CrawlHrefs, MaxLinks)

Words == {"x@y.com", "z@y.com", "word"}
Texts == SeqsUpTo(Words, MaxTextLen)

\* a fetched document: the words of its text and the texts of its h1 elements
PageBodies == {[text |-> x, h1 |-> h] :
                 x \in {<<"word">>, <<"x@y.com">>, <<"x@y.com", "z@y.com">>,
                        <<"x@y.com", "word", "x@y.com">>},
                 h \in {<<>>, <<"Title">>}}
CrawlBodies == { [text |-> <<"word">>, h1 |-> <<"Title">>],
                 [text |-> <<"x@y.com", "word", "x@y.com">>, h1 |-> <<>>] }
NoBody == [text |-> <<>>, h1 |-> <<>>]

\* outcome of session.get(url, timeout=15): it raises, or a response arrives
GetOutcomes(bodies) ==
  {[kind |-> "timeout", status |-> 0, body |-> NoBody]}
  \cup {[kind |-> "response", status |-> s, body |-> b] : s \in {200, 404}, b \in bodies}

ListingOutcomes(lists) ==
  {[kind |-> "timeout", status |-> 0, links |-> <<>>]}
  \cup {[kind |-> "response", status |-> s, links |-> l] : s \in {200, 503}, l \in lists}

\* the orders in which list(set) may enumerate the matches
Perms(S) == {f \in [1..Cardinality(S) -> S] :
               \A i, j \in 1..Cardinality(S) : f[i] = f[j] => i = j}
MatchOrders == Perms(EmailRe.lang)

(* --------------------------- pure functions --------------------------- *)
Range(s) == {s[i] : i \in 1..Len(s)}

RECURSIVE Concat(_)
Concat(ss) == IF ss = <<>> THEN <<>> ELSE Head(ss) \o Concat(Tail(ss))

\* re.findall(pattern, text): the matches in text order
findall(pattern, text) == SelectSeq(text, LAMBDA w : w \in pattern.lang)

\* list(S) for a set S, enumerated in the order ord
ListOfSet(S, ord) == SelectSeq(ord, LAMBDA w : w \in S)

extract_data(text, pats, ord) ==
  LET matches(n) == Range(findall(pats[n], text))
      keys == {n \in DOMAIN pats : ~pats[n].valid \/ matches(n) # {}}
  IN [n \in keys |-> IF pats[n].valid
                       THEN PyList(ListOfSet(matches(n), ord))
                       ELSE PyList(<<>>)]

\* first index at or after from whose token is in D, Len(s)+1 when none
FirstIdx(s, from, D) ==
  IF \E i \in from..Len(s) : s[i] \in D
    THEN CHOOSE i \in from..Len(s) :
           s[i] \in D /\ \A j \in from..(i-1) : s[j] \notin D
    ELSE Len(s) + 1

urlparse(url) ==
  LET hasScheme == Len(url) >= 2 /\ url[2] = "://"
      nEnd == IF hasScheme THEN FirstIdx(url, 3, {"/", "?", "#"}) ELSE 1
      pEnd == FirstIdx(url, nEnd, {"?", "#"})
      qEnd == FirstIdx(url, pEnd, {"#"})
  IN [scheme |-> IF hasScheme THEN url[1] ELSE "",
      netloc |-> IF hasScheme THEN SubSeq(url, 3, nEnd - 1) ELSE <<>>,
      path |-> SubSeq(url, nEnd, pEnd - 1),
      query |-> SubSeq(url, pEnd + 1, qEnd - 1)]

is_valid_url(url) ==
  LET result == urlparse(url)
  IN result.scheme # "" /\ result.netloc # <<>>
     /\ result.scheme \in {"http", "https"}

\* excluded in href
Contains(href, excluded) == \E i \in 1..Len(href) : href[i] = excluded

KeepLink(href) ==
  /\ href # <<>>
  /\ is_valid_url(href)
  /\ ~ \E excluded \in search_config.excluded_domains : Contains(href, excluded)

\* lines 138-142: the loop over soup.select(result_selector)
ResolveLinks(links) == SelectSeq(links, KeepLink)

Take(s, n) == SubSeq(s, 1, IF Len(s) < n THEN Len(s) ELSE n)

\* the elements soup.select(selector) finds in a document
Select(body, selector) == IF selector = "h1" THEN body.h1 ELSE <<>>

SelectorFields(body) ==
  LET field_data(f) ==
        Concat([i \in 1..Len(selector_config[f]) |->
                   Select(body, selector_config[f][i])])
      fields == {f \in DOMAIN selector_config : field_data(f) # <<>>}
  IN [f \in fields |-> PyList(field_data(f))]

\* the value scrape_page returns for the outcome of its GET
scrape_page(url, outcome, pats, ord) ==
  IF outcome.kind = "timeout" \/ outcome.status >= 400
    THEN PyNone
    ELSE LET base == [f \in {"url", "timestamp"} |->
                        IF f = "url" THEN PyStr(url) ELSE PyStr(<<"now">>)]
             extracted_data == SelectorFields(outcome.body) @@ base
         IN PyDict(extract_data(outcome.body.text, pats, ord) @@ extracted_data)

\* pd.DataFrame(records): one row per record, one column per key that occurs
DataFrame(records) ==
  LET columns == UNION {DOMAIN records[i] : i \in 1..Len(records)}
  IN [columns |-> columns,
      rows |-> [i \in 1..Len(records) |->
                  [c \in columns |-> IF c \in DOMAIN records[i]
                                       THEN records[i][c] ELSE NaN]]]

NoTable == [columns |-> {}, rows |-> <<>>]

\* lines 135-153: the URLs tasks are submitted for, given the response to the
\* GET of the listing (the status of the response is not read)
candidate_urls(response, results_per_page) ==
  Take(ResolveLinks(response.links), results_per_page)

(* ----------------------------- the pool ------------------------------- *)
InFlight == {i \in 1..Len(tasks) : tasks[i].state \in {"sleeping", "fetching"}}

\* future.result() and the exit of the with block return once the task ended
FinishedNoWait(i) == TRUE
Finished(i) == tasks[i].state = "done"

\* a worker thread of the task's executor is free
WorkerAlwaysAvailable(i) == TRUE
WorkerAvailable(i) ==
  Cardinality({j \in InFlight : tasks[j].page = tasks[i].page}) < max_workers

\* all_results.append(result)
PrependResult(results, r) == <<r>> \o results
AppendResult(results, r) == Append(results, r)

\* the page the for loop goes on with after the except clause (continue)
BreakAfterError(p) == search_config.max_pages + 1
NextPageAfterError(p) == p + 1

(* ----------------------------- the crawl ------------------------------ *)
NoCall == [fn |-> "none"]

CrawlInit ==
  /\ page = 1
  /\ pc = "loop"
  /\ urls = <<>>
  /\ futures = <<>>
  /\ k = 1
  /\ tasks = <<>>
  /\ all_results = <<>>
  /\ table = NoTable
  /\ prov = <<>>
  /\ collected = {}
  /\ main_slept = FALSE
  /\ requests = {}
  /\ attempted = {}
  /\ failed = {}

Init ==
  /\ patterns = default_patterns
  /\ max_workers \in 1..MaxWorkers
  /\ CrawlInit
  /\ arg = NoCall /\ ret = NoCall

\* lines 128-134 and 163-165: the GET of the listing raises
GetListingFails ==
  /\ pc = "loop" /\ page <= search_config.max_pages
  /\ requests' = requests \cup {[kind |-> "listing", page |-> page, paced |-> main_slept]}
  /\ main_slept' = FALSE
  /\ attempted' = attempted \cup {page}
  /\ failed' = failed \cup {page}
  /\ urls' = <<>> /\ futures' = <<>> /\ k' = 1
  /\ page' = NextPageAfterError(page)
  /\ UNCHANGED <<patterns, max_workers, pc, tasks, all_results, table, prov,
                 collected, arg, ret>>

\* lines 128-145: the listing arrives and its links are resolved
GetListingResponds ==
  /\ pc = "loop" /\ page <= search_config.max_pages
  /\ urls' \in {candidate_urls(r, search_config.results_per_page) :
                  r \in {x \in ListingOutcomes(CrawlLinkLists) : x.kind = "response"}}
  /\ requests' = requests \cup {[kind |-> "listing", page |-> page, paced |-> main_slept]}
  /\ main_slept' = FALSE
  /\ attempted' = attempted \cup {page}
  /\ futures' = <<>> /\ k' = 1
  /\ pc' = IF urls' = <<>> THEN "collect" ELSE "submit"
  /\ UNCHANGED <<patterns, max_workers, page, tasks, all_results, table, prov,
                 collected, failed, arg, ret>>

\* lines 146-154: executor.submit(self.scrape_page, url, ...)
Submit ==
  /\ pc = "submit"
  /\ LET n == Len(futures) + 1
     IN /\ tasks' = Append(tasks, [page |-> page, url |-> urls[n],
                                   state |-> "queued", result |-> PyNone])
        /\ futures' = Append(futures, Len(tasks) + 1)
        /\ pc' = IF n = Len(urls) THEN "collect" ELSE "submit"
  /\ UNCHANGED <<patterns, max_workers, page, urls, k, all_results, table,
                 prov, collected, main_slept, requests, attempted, failed, arg, ret>>

\* a worker thread takes the oldest queued task and enters time.sleep (line 89)
TaskStart(i) ==
  /\ tasks[i].state = "queued"
  /\ \A j \in 1..(i-1) : tasks[j].page = tasks[i].page => tasks[j].state # "queued"
  /\ WorkerAvailable(i)
  /\ tasks' = [tasks EXCEPT ![i].state = "sleeping"]
  /\ UNCHANGED <<patterns, max_workers, page, pc, urls, futures, k,
                 all_results, table, prov, collected, main_slept, requests,
                 attempted, failed, arg, ret>>

\* line 90: the sleep is over and the GET is issued
TaskGet(i) ==
  /\ tasks[i].state = "sleeping"
  /\ tasks' = [tasks EXCEPT ![i].state = "fetching"]
  /\ requests' = requests \cup {[kind |-> "page", page |-> tasks[i].page, paced |-> TRUE]}
  /\ UNCHANGED <<patterns, max_workers, page, pc, urls, futures, k,
                 all_results, table, prov, collected, main_slept, attempted,
                 failed, arg, ret>>

\* lines 90-120: the GET returns or raises and scrape_page returns
TaskFinish(i) ==
  /\ tasks[i].state = "fetching"
  /\ \E result \in {scrape_page(tasks[i].url, o, patterns, ord) :
                        o \in GetOutcomes(CrawlBodies), ord \in MatchOrders} :
       tasks' = [tasks EXCEPT ![i].state = "done", ![i].result = result]
  /\ UNCHANGED <<patterns, max_workers, page, pc, urls, futures, k,
                 all_results, table, prov, collected, main_slept, requests,
                 attempted, failed, arg, ret>>

\* lines 156-159: result = future.result(); if result: all_results.append(result)
Collect ==
  /\ pc = "collect" /\ k <= Len(futures)
  /\ Finished(futures[k])
  /\ LET result == tasks[futures[k]].result
     IN IF Truthy(result)
          THEN /\ all_results' = AppendResult(all_results, result.d)
               /\ prov' = AppendResult(prov, futures[k])
          ELSE UNCHANGED <<all_results, prov>>
  /\ collected' = collected \cup {futures[k]}
  /\ k' = k + 1
  /\ UNCHANGED <<patterns, max_workers, page, pc, urls, futures, tasks,
                 table, main_slept, requests, attempted, failed, arg, ret>>

\* lines 145 and 161: the with block is left and the loop sleeps
PageSleep ==
  /\ pc = "collect" /\ k > Len(futures)
  /\ \A i \in Range(futures) : Finished(i)
  /\ main_slept' = TRUE
  /\ page' = page + 1
  /\ pc' = "loop"
  /\ urls' = <<>> /\ futures' = <<>> /\ k' = 1
  /\ UNCHANGED <<patterns, max_workers, tasks, all_results, table, prov, collected,
                 requests, attempted, failed, arg, ret>>

\* line 167
Return ==
  /\ pc = "loop" /\ page > search_config.max_pages
  /\ table' = DataFrame(all_results)
  /\ pc' = "done"
  /\ UNCHANGED <<patterns, max_workers, page, urls, futures, k, tasks,
                 all_results, prov, collected, main_slept, requests, attempted,
                 failed, arg, ret>>

Next ==
  \/ GetListingFails
  \/ GetListingResponds
  \/ Submit
  \/ Collect
  \/ PageSleep
  \/ Return
  \/ \E i \in 1..Len(tasks) : TaskStart(i)
  \/ \E i \in 1..Len(tasks) : TaskGet(i)
  \/ \E i \in 1..Len(tasks) : TaskFinish(i)

Spec == Init /\ [][Next]_vars

(* --------------------- the functions on their own --------------------- *)
\* the records scrape_page can return
Records == {scrape_page(u, o, p, ord).d :
              u \in {UrlA}, o \in {x \in GetOutcomes(PageBodies) : x.status = 200},
              p \in PatternConfigs, ord \in MatchOrders}

FnInputs ==
  {[fn |-> "extract_data", text |-> x, patterns |-> p, ord |-> o] :
      x \in Texts, p \in PatternConfigs, o \in MatchOrders}
  \cup {[fn |-> "scrape_page", url |-> u, outcome |-> o, patterns |-> p, ord |-> d] :
      u \in {UrlA, UrlB}, o \in GetOutcomes(PageBodies), p \in PatternConfigs,
      d \in MatchOrders}
  \cup {[fn |-> "candidate_urls", response |-> r, results_per_page |-> n] :
      r \in {x \in ListingOutcomes(LinkLists) : x.kind = "response"},
      n \in 1..ResultsPerPage}
  \cup {[fn |-> "DataFrame", records |-> r] : r \in SeqsUpTo(Records, 2)}

InitFn ==
  /\ patterns = default_patterns
  /\ max_workers = 1
  /\ CrawlInit
  /\ arg \in FnInputs
  /\ ret = NoCall

CallExtractData ==
  /\ arg.fn = "extract_data" /\ ret = NoCall
  /\ ret' = [fn |-> arg.fn, v |-> extract_data(arg.text, arg.patterns, arg.ord)]
  /\ UNCHANGED <<crawl_vars, arg>>

CallScrapePage ==
  /\ arg.fn = "scrape_page" /\ ret = NoCall
  /\ ret' = [fn |-> arg.fn,
             v |-> scrape_page(arg.url, arg.outcome, arg.patterns, arg.ord)]
  /\ UNCHANGED <<crawl_vars, arg>>

CallCandidateUrls ==
  /\ arg.fn = "candidate_urls" /\ ret = NoCall
  /\ ret' = [fn |-> arg.fn, v |-> candidate_urls(arg.response, arg.results_per_page)]
  /\ UNCHANGED <<crawl_vars, arg>>

CallDataFrame ==
  /\ arg.fn = "DataFrame" /\ ret = NoCall
  /\ ret' = [fn |-> arg.fn, v |-> DataFrame(arg.records)]
  /\ UNCHANGED <<crawl_vars, arg>>

NextFn ==
  \/ CallExtractData
  \/ CallScrapePage
  \/ CallCandidateUrls
  \/ CallDataFrame

SpecFn == InitFn /\ [][NextFn]_vars

(* ------------------------------ claims -------------------------------- *)
\* the distinct words of a text a pattern matches
MatchSet(pattern, text) == {w \in Range(text) : w \in pattern.lang}

\* the values of a list cell
Values(cell) == Range(cell.v)

\* C1: extract_data returns every valid pattern that has a match with its
\* matches and leaves the malformed pattern's name out of the mapping, and
\* no record of scrape_page holds a pattern key whose value is an empty list.
C1_MalformedPatternAbsent ==
  /\ ret.fn = "extract_data" =>
       \A n \in DOMAIN arg.patterns :
         /\ (arg.patterns[n].valid /\ MatchSet(arg.patterns[n], arg.text) # {})
              => /\ n \in DOMAIN ret.v
                 /\ Values(ret.v[n]) = MatchSet(arg.patterns[n], arg.text)
         /\ ~arg.patterns[n].valid => n \notin DOMAIN ret.v
  /\ (ret.fn = "scrape_page" /\ ret.v.t = "dict") =>
       \A n \in DOMAIN arg.patterns :
         n \in DOMAIN ret.v.d => ret.v.d[n] # PyList(<<>>)

\* C2: one record whose only multi-valued field holds N >= 1 values gives a
\* table of N rows, one value of the field in each, the other columns as in
\* the record; and no cell of any table is a list.
C2_ExplodeRows ==
  ret.fn = "DataFrame" =>
    /\ \A i \in 1..Len(ret.v.rows) : \A c \in ret.v.columns :
         ret.v.rows[i][c].t # "list"
    /\ Len(arg.records) = 1 =>
         LET rec == arg.records[1]
             multi == {c \in DOMAIN rec : rec[c].t = "list"}
         IN \A f \in multi :
              (multi = {f} /\ Len(rec[f].v) >= 1) =>
                /\ Len(ret.v.rows) = Len(rec[f].v)
                /\ \A i \in 1..Len(ret.v.rows) :
                     /\ ret.v.rows[i][f] = PyStr(rec[f].v[i])
                     /\ \A c \in DOMAIN rec \ {f} : ret.v.rows[i][c] = rec[c]

\* a well-formed http(s) URL none of whose path and query tokens is an
\* excluded suffix
Eligible(href) ==
  LET u == urlparse(href)
  IN /\ u.scheme \in {"http", "https"} /\ u.netloc # <<>>
     /\ \A x \in Range(u.path) \cup Range(u.query) : x \notin excluded_domains

\* C3: the tasks of a search page are scheduled for exactly the first
\* results-per-page eligible hrefs of the listing, in document order; no URL
\* is dropped for another reason.
C3_ScheduledExactlyEligible ==
  ret.fn = "candidate_urls" =>
    ret.v = Take(SelectSeq(arg.response.links, Eligible), arg.results_per_page)

\* a GET that timed out or whose status is not 2xx/3xx
FetchError(o) == o.kind = "timeout" \/ o.status \notin 200..399

\* C5: nothing is extracted from a GET that timed out or returned a status
\* that is not 2xx/3xx: no record from a candidate page, no candidate URLs
\* from a listing.
C5_NothingFromFailedFetch ==
  /\ (ret.fn = "scrape_page" /\ FetchError(arg.outcome)) => ret.v = PyNone
  /\ (ret.fn = "candidate_urls" /\ FetchError(arg.response)) => ret.v = <<>>

\* what one step of the crawl does to the aggregate, the loop and the table
C4_Step ==
  /\ failed' # failed =>
       /\ all_results' = all_results
       /\ pc' = "loop" /\ page' = page + 1
  /\ Len(all_results') >= Len(all_results)
  /\ SubSeq(all_results', 1, Len(all_results)) = all_results
  /\ pc' = "done" =>
       /\ attempted' = 1..search_config.max_pages
       /\ \A j \in 1..Len(prov') : tasks'[prov'[j]].page \notin failed'
       /\ table' = DataFrame(all_results')

\* C4: a failure at a search page is contained at it: the step that takes
\* the except clause leaves the aggregate as it was and goes on with the next
\* page, the aggregate only grows at its end, and when the crawl returns, the
\* listing of every page 1..max-pages was requested, no record comes from a
\* failed page and the table of the aggregate has been built.
C4_PageFailureContained == [][C4_Step]_vars

C4_Witness ==
  /\ pc = "done" /\ failed = {1} /\ attempted = {1, 2}
  /\ all_results # <<>>

\* C6: at most max-workers tasks are in flight at any moment.
C6_InFlightBounded == Cardinality(InFlight) <= max_workers

C6_Witness ==
  /\ Cardinality(InFlight) = max_workers
  /\ \E i \in 1..Len(tasks) : tasks[i].state = "queued"

\* C7: in the aggregate, the records of an earlier search page come before
\* the records of a later one.
C7_PageOrder ==
  /\ Len(prov) = Len(all_results)
  /\ \A i, j \in 1..Len(prov) :
       i < j => tasks[prov[i]].page <= tasks[prov[j]].page

C7_Witness ==
  /\ pc = "done"
  /\ \E i, j \in 1..Len(prov) :
       i < j /\ tasks[prov[i]].page = 1 /\ tasks[prov[j]].page = 2

\* C8: once the loop has left a search page, every task of that page has
\* ended and its result has been taken by the loop, and tasks of two pages
\* are never in flight together.
C8_PoolJoined ==
  /\ \A i \in 1..Len(tasks) :
       tasks[i].page < page => tasks[i].state = "done" /\ i \in collected
  /\ \A i, j \in InFlight : tasks[i].page = tasks[j].page

C8_Witness ==
  /\ page = 2 /\ 2 \in attempted /\ pc = "submit"
  /\ Cardinality({i \in 1..Len(tasks) : tasks[i].page = 1}) >= 2

\* C9: when the crawl ends the aggregate holds exactly one record for each
\* task that returned a record, the record that task returned, and none for
\* the tasks that failed.
C9_NoResultLostOrDuplicated ==
  pc = "done" =>
    /\ Len(prov) = Len(all_results)
    /\ \A i, j \in 1..Len(prov) : prov[i] = prov[j] => i = j
    /\ Range(prov) = {i \in 1..Len(tasks) : tasks[i].result.t = "dict"}
    /\ \A j \in 1..Len(prov) : all_results[j] = tasks[prov[j]].result.d

C9_Witness ==
  /\ pc = "done"
  /\ \E i, j \in 1..Len(tasks) :
       /\ tasks[i].page = tasks[j].page
       /\ tasks[i].result = PyNone
       /\ tasks[j].result.t = "dict" /\ j \in Range(prov)

\* C10: every GET of the crawl is issued after a pacing sleep taken by the
\* same thread since its previous GET.
C10_EveryGetPaced == \A r \in requests : r.paced
====
